---- MODULE Spec2Model ----
(***************************************************************************)
(* Model of the transaction categorizer: the merchant-matching            *)
(* categorizer (categorizer.py), the ignore-pattern filter                *)
(* (transaction_filter.py), the SQLite store (database.py), the           *)
(* aggregation layer (analytics.py), the loaders (csv_loader.py,          *)
(* category_loader.py, budget_loader.py) and the two commands (cli.py,    *)
(* dashboard.py).                                                         *)
(*                                                                         *)
(* Strings that are matched (descriptions, patterns) and dates are         *)
(* sequences of one-character strings; category names are atomic strings.  *)
(* Amounts are integers; quotients are kept as exact fractions.            *)
(***************************************************************************)
EXTENDS Integers, Sequences, FiniteSets, TLC

VARIABLES
    categories,        \* TransactionCategorizer.categories
    default_category,  \* TransactionCategorizer.default_category
    ignore_patterns,   \* TransactionFilter.ignore_patterns
    transactions,      \* the caller's in-memory list of Transaction objects
    rows,              \* the rows of the SQLite table `transactions`, by id
    budgets,           \* Analytics.budgets
    argsort_kind,      \* which tie order numpy's default argsort gives in this build
    ret                \* outcome of the last call: [op, arg, exc, val]

vars == <<categories, default_category, ignore_patterns, transactions,
          rows, budgets, argsort_kind, ret>>

-----------------------------------------------------------------------------
(* Bounds *)

MaxCats == 2        \* categories in a categorizer
MaxDescLen == 3     \* characters in a description
MaxPatterns == 2    \* ignore patterns in a filter
MaxTxns == 3        \* transactions in a caller's list
MaxRows == 3        \* rows in the store
MaxFiles == 2       \* CSV files in an input directory

-----------------------------------------------------------------------------
(* Python values *)

\* Python's None where a str is expected; no character is "NoneType", so it
\* differs from every str.
None == <<"NoneType">>

\* Optional[float] / Optional[int]: <<>> is None, <<x>> is the value x.
NoValue == <<>>
Some(x) == <<x>>

\* The outcome of a call: it returned val, or it raised exception exc.
Return(v) == [exc |-> "", val |-> v]
Raise(e) == [exc |-> e, val |-> <<>>]

SeqsUpTo(S, n) == UNION {[1..k -> S] : k \in 0..n}

Chars == {"a", "A", "b"}

Strings(n) == SeqsUpTo(Chars, n)

\* str.lower() on one character.
lower_char(c) ==
    CASE c = "A" -> "a" [] c = "B" -> "b" [] c = "C" -> "c" [] c = "D" -> "d"
      [] c = "E" -> "e" [] c = "F" -> "f" [] c = "G" -> "g" [] c = "H" -> "h"
      [] c = "I" -> "i" [] c = "J" -> "j" [] c = "K" -> "k" [] c = "L" -> "l"
      [] c = "M" -> "m" [] c = "N" -> "n" [] c = "O" -> "o" [] c = "P" -> "p"
      [] c = "Q" -> "q" [] c = "R" -> "r" [] c = "S" -> "s" [] c = "T" -> "t"
      [] c = "U" -> "u" [] c = "V" -> "v" [] c = "W" -> "w" [] c = "X" -> "x"
      [] c = "Y" -> "y" [] c = "Z" -> "z"
      [] OTHER -> c

\* str.lower()
lower(s) == [i \in 1..Len(s) |-> lower_char(s[i])]

\* description.lower(): AttributeError when description is None.
attr_lower(description) ==
    IF description = None THEN Raise("AttributeError") ELSE Return(lower(description))

\* Python's `pattern in text` on two str.
str_in(pattern, text) ==
    \E i \in 0..(Len(text) - Len(pattern)) :
        \A j \in 1..Len(pattern) : text[i + j] = pattern[j]

-----------------------------------------------------------------------------
(* models.py *)

\* A Transaction object as the callers build it (all fields given).
NewTransaction(date, amount, description, category) ==
    [date |-> date, amount |-> amount, nr_1 |-> "", nr_2 |-> "",
     description |-> description, category |-> category, id |-> NoValue]

Category(name, merchants) == [name |-> name, merchants |-> merchants]

-----------------------------------------------------------------------------
(* categorizer.py *)

\* The inner loop of categorize_transaction: some merchant of the category is
\* in desc_lower.
RECURSIVE merchant_loop(_, _, _)
merchant_loop(merchants, k, desc_lower) ==
    IF k > Len(merchants) THEN FALSE
    ELSE IF str_in(lower(merchants[k]), desc_lower) THEN TRUE
    ELSE merchant_loop(merchants, k + 1, desc_lower)

\* The category loop taken from the last category to the first (mutant of
\* category_loop: last match wins).
RECURSIVE category_loop_last(_, _, _, _)
category_loop_last(cats, i, desc_lower, default) ==
    IF i > Len(cats) THEN default
    ELSE LET rest == category_loop_last(cats, i + 1, desc_lower, default) IN
         IF rest # default THEN rest
         ELSE IF merchant_loop(cats[i].merchants, 1, desc_lower) THEN cats[i].name
         ELSE default

\* The category loop with `return category.name` outside the merchant test
\* (mutant of category_loop: the first category always wins).
category_loop_unconditional(cats, i, desc_lower, default) ==
    IF i > Len(cats) THEN default ELSE cats[i].name

\* The outer loop of categorize_transaction from category i on: the name of
\* the first category with a matching merchant, else the default.
RECURSIVE category_loop(_, _, _, _)
category_loop(cats, i, desc_lower, default) ==
    IF i > Len(cats) THEN default
    ELSE IF merchant_loop(cats[i].merchants, 1, desc_lower) THEN cats[i].name
    ELSE category_loop(cats, i + 1, desc_lower, default)

\* categorize_transaction without its `if not description` guard (mutant).
categorize_transaction_unguarded(cats, default, description) ==
    LET dl == attr_lower(description) IN
    IF dl.exc # "" THEN dl
    ELSE Return(category_loop(cats, 1, dl.val, default))

\* TransactionCategorizer.categorize_transaction
categorize_transaction(cats, default, description) ==
    IF description = None \/ description = <<>>
    THEN Return(default)
    ELSE LET dl == attr_lower(description) IN
         IF dl.exc # "" THEN dl
         ELSE Return(category_loop(cats, 1, dl.val, default))

\* The inner loop of get_matching_category returning merchant.lower()
\* instead of merchant (mutant of matching_merchant).
RECURSIVE matching_merchant_lowered(_, _, _)
matching_merchant_lowered(merchants, k, desc_lower) ==
    IF k > Len(merchants) THEN NoValue
    ELSE IF str_in(lower(merchants[k]), desc_lower) THEN Some(lower(merchants[k]))
    ELSE matching_merchant_lowered(merchants, k + 1, desc_lower)

\* The inner loop of get_matching_category: the first merchant of the
\* category, as written, whose lower-cased text is in desc_lower.
RECURSIVE matching_merchant(_, _, _)
matching_merchant(merchants, k, desc_lower) ==
    IF k > Len(merchants) THEN NoValue
    ELSE IF str_in(lower(merchants[k]), desc_lower) THEN Some(merchants[k])
    ELSE matching_merchant(merchants, k + 1, desc_lower)

\* The outer loop of get_matching_category from category i on.
RECURSIVE matching_loop(_, _, _, _)
matching_loop(cats, i, desc_lower, default) ==
    IF i > Len(cats) THEN <<default, None>>
    ELSE LET merchant == matching_merchant(cats[i].merchants, 1, desc_lower) IN
         IF merchant # NoValue THEN <<cats[i].name, merchant[1]>>
         ELSE matching_loop(cats, i + 1, desc_lower, default)

\* TransactionCategorizer.get_matching_category
get_matching_category(cats, default, description) ==
    IF description = None \/ description = <<>>
    THEN Return(<<default, None>>)
    ELSE LET dl == attr_lower(description) IN
         IF dl.exc # "" THEN dl
         ELSE Return(matching_loop(cats, 1, dl.val, default))

\* The loop of categorize_batch assigning only where the category is still
\* the dataclass default (mutant of batch_loop).
RECURSIVE batch_loop_unset_only(_, _, _, _)
batch_loop_unset_only(cats, default, txns, i) ==
    IF i > Len(txns) THEN Return(txns)
    ELSE LET category == categorize_transaction(cats, default, txns[i].description) IN
         IF category.exc # "" THEN [exc |-> category.exc, val |-> txns]
         ELSE batch_loop_unset_only(cats, default,
                  [txns EXCEPT ![i] = IF @.category = "Uncategorized"
                                      THEN [@ EXCEPT !.category = category.val]
                                      ELSE @],
                  i + 1)

\* The loop of categorize_batch from element i on: each transaction's category
\* is assigned in place. val is the list as the loop leaves it, also when
\* categorize_transaction raises.
RECURSIVE batch_loop(_, _, _, _)
batch_loop(cats, default, txns, i) ==
    IF i > Len(txns) THEN Return(txns)
    ELSE LET category == categorize_transaction(cats, default, txns[i].description) IN
         IF category.exc # "" THEN [exc |-> category.exc, val |-> txns]
         ELSE batch_loop(cats, default,
                         [txns EXCEPT ![i] = [@ EXCEPT !.category = category.val]],
                         i + 1)

\* TransactionCategorizer.categorize_batch
categorize_batch(cats, default, txns) ==
    IF txns = <<>> THEN Return(txns) ELSE batch_loop(cats, default, txns, 1)

-----------------------------------------------------------------------------
(* transaction_filter.py *)

\* TransactionFilter.__init__: the patterns are lower-cased once.
TransactionFilter(patterns) == [i \in 1..Len(patterns) |-> lower(patterns[i])]

\* The pattern loop of should_ignore.
RECURSIVE pattern_loop(_, _, _)
pattern_loop(patterns, k, desc_lower) ==
    IF k > Len(patterns) THEN FALSE
    ELSE IF str_in(patterns[k], desc_lower) THEN TRUE
    ELSE pattern_loop(patterns, k + 1, desc_lower)

\* should_ignore comparing the description as it is (mutant: case-sensitive).
should_ignore_case_sensitive(patterns, description) ==
    IF description = None THEN Raise("AttributeError")
    ELSE Return(pattern_loop(patterns, 1, description))

\* TransactionFilter.should_ignore
should_ignore(patterns, description) ==
    LET dl == attr_lower(description) IN
    IF dl.exc # "" THEN dl
    ELSE Return(pattern_loop(patterns, 1, dl.val))

\* The list comprehension of filter_transactions from element i on.
RECURSIVE filter_loop(_, _, _)
filter_loop(patterns, txns, i) ==
    IF i > Len(txns) THEN Return(<<>>)
    ELSE LET ig == should_ignore(patterns, txns[i].description) IN
         IF ig.exc # "" THEN ig
         ELSE LET rest == filter_loop(patterns, txns, i + 1) IN
              IF rest.exc # "" THEN rest
              ELSE IF ig.val THEN rest
              ELSE Return(<<txns[i]>> \o rest.val)

\* TransactionFilter.filter_transactions
filter_transactions(patterns, txns) == filter_loop(patterns, txns, 1)

-----------------------------------------------------------------------------
(* Python str comparison *)

\* ord() of the characters dates are written with.
ord(c) ==
    CASE c = "0" -> 48
      [] c = "1" -> 49
      [] c = "9" -> 57

\* s < t on two str: lexicographic by code point, a proper prefix is smaller.
RECURSIVE str_lt(_, _)
str_lt(s, t) ==
    IF t = <<>> THEN FALSE
    ELSE IF s = <<>> THEN TRUE
    ELSE IF ord(Head(s)) # ord(Head(t)) THEN ord(Head(s)) < ord(Head(t))
    ELSE str_lt(Tail(s), Tail(t))

\* The category names of the model in Python's str order (code points: upper
\* case before lower case).
name_order ==
    <<"A", "B", "C", "Food", "Gas", "Other", "Restaurants", "Uncategorized", "gas">>

-----------------------------------------------------------------------------
(* models.py: the constructor the @dataclass decorator generates *)

Transaction_required == {"date", "amount", "nr_1", "nr_2", "description"}

Transaction_defaults == [category |-> "Uncategorized", id |-> NoValue]

\* Transaction(**kwargs): TypeError when a field without default is missing.
Transaction(kwargs) ==
    IF ~(Transaction_required \subseteq DOMAIN kwargs)
    THEN Raise("TypeError")
    ELSE Return([f \in Transaction_required \cup DOMAIN Transaction_defaults |->
                    IF f \in DOMAIN kwargs THEN kwargs[f] ELSE Transaction_defaults[f]])

-----------------------------------------------------------------------------
(* database.py *)

\* insert_transactions: the table after the INSERTs; ids are AUTOINCREMENT,
\* nr_1 and nr_2 are not written.
inserted_rows(table, txns) ==
    table \o [i \in 1..Len(txns) |->
                [id |-> Len(table) + i,
                 date |-> txns[i].date,
                 amount |-> txns[i].amount,
                 description |-> txns[i].description,
                 category |-> txns[i].category]]

\* Database.insert_transactions: cursor.rowcount
insert_transactions(table, txns) == Return(Len(txns))

\* The loop over cursor.fetchall() of get_all_transactions / get_by_category.
RECURSIVE fetch_loop(_, _)
fetch_loop(fetched, i) ==
    IF i > Len(fetched) THEN Return(<<>>)
    ELSE LET t == Transaction([id |-> Some(fetched[i].id),
                               date |-> fetched[i].date,
                               amount |-> fetched[i].amount,
                               description |-> fetched[i].description,
                               category |-> fetched[i].category]) IN
         IF t.exc # "" THEN t
         ELSE LET rest == fetch_loop(fetched, i + 1) IN
              IF rest.exc # "" THEN rest
              ELSE Return(<<t.val>> \o rest.val)

\* Database.get_all_transactions: SELECT * ... ORDER BY id
get_all_transactions(table) == fetch_loop(table, 1)

\* Database.get_by_category: SELECT * ... WHERE category = ? ORDER BY id
get_by_category(table, category) ==
    fetch_loop(SelectSeq(table, LAMBDA r : r.category = category), 1)

\* An UPDATE without its WHERE clause.
updated_rows_unconditional(table, transaction_id, category) ==
    [i \in DOMAIN table |-> [table[i] EXCEPT !.category = category]]

\* update_category: the table after UPDATE ... SET category = ? WHERE id = ?
updated_rows(table, transaction_id, category) ==
    [i \in DOMAIN table |->
        IF table[i].id = transaction_id
        THEN [table[i] EXCEPT !.category = category]
        ELSE table[i]]

\* Database.update_category: no return statement
update_category(table, transaction_id, category) == Return(None)

-----------------------------------------------------------------------------
(* analytics.py *)

\* An exact quotient num / den.
Frac(n, d) == [num |-> n, den |-> d]

Abs(x) == IF x < 0 THEN -x ELSE x

RECURSIVE sum_amounts(_)
sum_amounts(txns) ==
    IF txns = <<>> THEN 0 ELSE Head(txns).amount + sum_amounts(Tail(txns))

RECURSIVE sum_totals(_)
sum_totals(grouped) ==
    IF grouped = <<>> THEN 0 ELSE Head(grouped).total + sum_totals(Tail(grouped))

\* df.groupby('category'): the group keys, sorted (sort=True is the default).
groupby_keys(txns) ==
    SelectSeq(name_order, LAMBDA n : \E i \in DOMAIN txns : txns[i].category = n)

\* .agg(count, sum, mean), raw_total = total, total = total.abs()
grouped_frame(txns) ==
    LET keys == groupby_keys(txns) IN
    [k \in 1..Len(keys) |->
        LET members == SelectSeq(txns, LAMBDA t : t.category = keys[k])
            total == sum_amounts(members) IN
        [category |-> keys[k],
         count |-> Len(members),
         raw_total |-> total,
         total |-> Abs(total),
         average |-> Frac(total, Len(members))]]

\* grouped['percentage']
with_percentage(grouped) ==
    LET grand_total == sum_totals(grouped) IN
    [k \in 1..Len(grouped) |->
        [category |-> grouped[k].category,
         count |-> grouped[k].count,
         raw_total |-> grouped[k].raw_total,
         total |-> grouped[k].total,
         average |-> grouped[k].average,
         percentage |-> IF grand_total > 0
                        THEN Frac(grouped[k].total * 100, grand_total)
                        ELSE Frac(0, 1)]]

\* One insertion of sort_values('total', ascending=False). The default kind is
\* quicksort, which is not stable: "stable" keeps equal totals in frame
\* order, any other build is represented by the reverse of it.
RECURSIVE sort_insert(_, _, _)
sort_insert(sorted, g, kind) ==
    IF sorted = <<>> THEN <<g>>
    ELSE IF Head(sorted).total > g.total
            \/ (Head(sorted).total = g.total /\ kind = "stable")
         THEN <<Head(sorted)>> \o sort_insert(Tail(sorted), g, kind)
         ELSE <<g>> \o sorted

\* grouped.sort_values('total', ascending=False)
RECURSIVE sort_values(_, _)
sort_values(grouped, kind) ==
    IF grouped = <<>> THEN <<>>
    ELSE sort_insert(sort_values(SubSeq(grouped, 1, Len(grouped) - 1), kind),
                     grouped[Len(grouped)], kind)

\* self.budgets.get(category_name): the budget map is a function on the names
\* that have an entry.
budget_get(bmap, name) == IF name \in DOMAIN bmap THEN Some(bmap[name]) ELSE NoValue

\* The CategorySummary built from one row of the sorted frame.
CategorySummary(row, bmap) ==
    LET budget == budget_get(bmap, row.category) IN
    [category |-> row.category,
     count |-> row.count,
     total |-> row.total,
     average |-> row.average,
     percentage |-> row.percentage,
     budget |-> budget,
     deviation |-> IF budget # NoValue THEN Some(budget[1] - row.total) ELSE NoValue,
     raw_total |-> row.raw_total]

\* Analytics.group_by_category
group_by_category(table, bmap, kind) ==
    LET got == get_all_transactions(table) IN
    IF got.exc # "" THEN got
    ELSE IF got.val = <<>> THEN Return(<<>>)
    ELSE LET grouped == sort_values(with_percentage(grouped_frame(got.val)), kind) IN
         Return([k \in 1..Len(grouped) |-> CategorySummary(grouped[k], bmap)])

TransactionDetail(t) == [date |-> t.date, description |-> t.description, amount |-> t.amount]

\* details.sort(key=lambda x: x.date): list.sort is stable.
RECURSIVE date_insert(_, _)
date_insert(sorted, d) ==
    IF sorted = <<>> THEN <<d>>
    ELSE IF ~str_lt(d.date, Head(sorted).date)
         THEN <<Head(sorted)>> \o date_insert(Tail(sorted), d)
         ELSE <<d>> \o sorted

RECURSIVE sort_by_date(_)
sort_by_date(details) ==
    IF details = <<>> THEN <<>>
    ELSE date_insert(sort_by_date(SubSeq(details, 1, Len(details) - 1)),
                     details[Len(details)])

\* Analytics.get_transactions_by_category
get_transactions_by_category(table, category) ==
    LET got == get_by_category(table, category) IN
    IF got.exc # "" THEN got
    ELSE IF got.val = <<>> THEN Return(<<>>)
    ELSE Return(sort_by_date([i \in 1..Len(got.val) |-> TransactionDetail(got.val[i])]))

\* get_total_stats without the empty-list guard and the count guard (mutant).
get_total_stats_unguarded(table) ==
    LET got == get_all_transactions(table) IN
    IF got.exc # "" THEN got
    ELSE IF Len(got.val) = 0 THEN Raise("ZeroDivisionError")
    ELSE Return([total_count |-> Len(got.val),
                 total_amount |-> sum_amounts(got.val),
                 average_amount |-> Frac(sum_amounts(got.val), Len(got.val))])

\* Analytics.get_total_stats; 0.0 is the fraction 0/1.
get_total_stats(table) ==
    LET got == get_all_transactions(table) IN
    IF got.exc # "" THEN got
    ELSE IF got.val = <<>>
         THEN Return([total_count |-> 0, total_amount |-> 0, average_amount |-> Frac(0, 1)])
    ELSE LET total_amount == sum_amounts(got.val)
             count == Len(got.val) IN
         Return([total_count |-> count,
                 total_amount |-> total_amount,
                 average_amount |-> IF count > 0 THEN Frac(total_amount, count)
                                    ELSE Frac(0, 1)])

\* Python's list[:n]
slice_to(list, n) ==
    IF n >= 0 THEN SubSeq(list, 1, IF n < Len(list) THEN n ELSE Len(list))
    ELSE SubSeq(list, 1, IF Len(list) + n > 0 THEN Len(list) + n ELSE 0)

\* Analytics.get_top_categories
get_top_categories(table, bmap, kind, n) ==
    LET summaries == group_by_category(table, bmap, kind) IN
    IF summaries.exc # "" THEN summaries
    ELSE Return(slice_to(summaries.val, n))

\* Analytics.get_uncategorized_count
get_uncategorized_count(table) ==
    LET got == get_by_category(table, "Uncategorized") IN
    IF got.exc # "" THEN got
    ELSE Return(Len(got.val))

\* Analytics.get_category_count
get_category_count(table, bmap, kind) ==
    LET summaries == group_by_category(table, bmap, kind) IN
    IF summaries.exc # "" THEN summaries
    ELSE Return(Len(SelectSeq(summaries.val, LAMBDA s : s.category # "Uncategorized")))

\* the position of a category name in Python's str order
name_rank(name) == CHOOSE i \in DOMAIN name_order : name_order[i] = name

\* One insertion of sorted() on a list of names: sorted() is stable.
RECURSIVE name_insert(_, _)
name_insert(sorted, n) ==
    IF sorted = <<>> THEN <<n>>
    ELSE IF name_rank(Head(sorted)) <= name_rank(n)
         THEN <<Head(sorted)>> \o name_insert(Tail(sorted), n)
         ELSE <<n>> \o sorted

\* sorted(names)
RECURSIVE sorted_names(_)
sorted_names(names) ==
    IF names = <<>> THEN <<>>
    ELSE name_insert(sorted_names(SubSeq(names, 1, Len(names) - 1)), names[Len(names)])

\* Analytics.get_all_categories
get_all_categories(table, bmap, kind) ==
    LET summaries == group_by_category(table, bmap, kind) IN
    IF summaries.exc # "" THEN summaries
    ELSE Return(sorted_names([k \in 1..Len(summaries.val) |-> summaries.val[k].category]))

-----------------------------------------------------------------------------
(* pandas values *)

\* A cell of a frame read by pd.read_csv: missing (float nan), a number, or
\* a str.
NaN == [kind |-> "nan", v |-> <<>>]
Num(x) == [kind |-> "num", v |-> x]
Str(text) == [kind |-> "str", v |-> text]

\* pd.notna / Series.isna on one cell
isna(cell) == cell.kind = "nan"

\* float(cell) succeeds on a number (and on nan).
is_number(cell) == cell.kind = "num"

\* str.strip(): leading and trailing blanks removed.
RECURSIVE lstrip(_)
lstrip(str) ==
    IF str # <<>> /\ Head(str) = " " THEN lstrip(Tail(str)) ELSE str

RECURSIVE rstrip(_)
rstrip(str) ==
    IF str # <<>> /\ str[Len(str)] = " " THEN rstrip(SubSeq(str, 1, Len(str) - 1)) ELSE str

strip(str) == rstrip(lstrip(str))

\* str(cell) of a cell of a str column: the text, "nan" for a missing cell.
str_of(cell) == IF isna(cell) THEN <<"n", "a", "n">> ELSE cell.v

-----------------------------------------------------------------------------
(* csv_loader.py *)

\* The role load_file gives a column by the text its lower-cased header
\* contains ('date', else 'amount', else 'description' or 'desc'), for the
\* headers of the model; "" when it contains none.
column_role(header) ==
    CASE header \in {"Date", "Update"} -> "date"
      [] header \in {"Amount", "AMOUNT"} -> "amount"
      [] header \in {"Description", "Desc"} -> "description"
      [] OTHER -> ""

\* CSVLoader.load_file: a file is [readable, header, rows]; the rows carry the
\* cells of the three extracted columns.
load_file(file) ==
    IF ~file.readable THEN Raise("ParserError")
    ELSE IF {"date", "amount", "description"}
              \subseteq {column_role(file.header[i]) : i \in DOMAIN file.header}
    THEN Return(file.rows)
    ELSE Raise("ValueError")

\* The loop of load_directory over the files from file i on: a file that
\* fails to load is skipped with a warning. dfs is the list of loaded frames,
\* skipped the number of warnings.
RECURSIVE load_loop(_, _)
load_loop(csv_files, i) ==
    IF i > Len(csv_files) THEN [dfs |-> <<>>, skipped |-> 0]
    ELSE LET df == load_file(csv_files[i])
             rest == load_loop(csv_files, i + 1) IN
         IF df.exc # "" THEN [dfs |-> rest.dfs, skipped |-> rest.skipped + 1]
         ELSE [dfs |-> <<df.val>> \o rest.dfs, skipped |-> rest.skipped]

\* pd.concat(dfs, ignore_index=True)
RECURSIVE concat(_)
concat(dfs) == IF dfs = <<>> THEN <<>> ELSE Head(dfs) \o concat(Tail(dfs))

\* CSVLoader.load_directory: a directory is [exists, csv_files], csv_files the
\* files the glob finds, without the category and budget files.
load_directory(directory) ==
    IF ~directory.exists THEN Raise("ValueError")
    ELSE IF directory.csv_files = <<>> THEN Raise("ValueError")
    ELSE LET loaded == load_loop(directory.csv_files, 1) IN
         IF loaded.dfs = <<>> THEN Raise("ValueError")
         ELSE Return(concat(loaded.dfs))

\* pd.to_numeric(errors='coerce') on one cell
to_numeric(cell) == IF is_number(cell) THEN cell ELSE NaN

\* CSVLoader.validate_data: val is the frame with its amount column coerced
\* (the frame is changed in place before the description test).
validate_data(df) ==
    LET coerced == [i \in DOMAIN df |-> [df[i] EXCEPT !.amount = to_numeric(@)]] IN
    IF \A i \in DOMAIN df : isna(df[i].description)
    THEN [exc |-> "ValueError", val |-> coerced]
    ELSE Return(coerced)

\* The loop of to_transactions from row i on.
RECURSIVE to_transactions_loop(_, _)
to_transactions_loop(df, i) ==
    IF i > Len(df) THEN Return(<<>>)
    ELSE LET row == df[i]
             t == IF ~isna(row.amount) /\ ~is_number(row.amount)
                  THEN Raise("ValueError")    \* float() of a text cell
                  ELSE Transaction(
                    [date |-> IF ~isna(row.date) THEN str_of(row.date) ELSE <<>>,
                     amount |-> IF ~isna(row.amount) THEN row.amount.v ELSE 0,
                     description |-> IF ~isna(row.description)
                                     THEN str_of(row.description) ELSE <<>>]) IN
         IF t.exc # "" THEN t
         ELSE LET rest == to_transactions_loop(df, i + 1) IN
              IF rest.exc # "" THEN rest
              ELSE Return(<<t.val>> \o rest.val)

\* CSVLoader.to_transactions
to_transactions(df) == to_transactions_loop(df, 1)

-----------------------------------------------------------------------------
(* category_loader.py *)

\* column_name.lower() == 'ignore', for the headers of the model.
is_ignore_column(column_name) == column_name \in {"ignore", "Ignore", "IGNORE"}

\* df[column].dropna() and the comprehension after it: the stripped text of
\* every cell that is not missing, not blank and not 'nan'.
cell_texts(cells) ==
    LET kept == SelectSeq(cells, LAMBDA m :
                    /\ ~isna(m)
                    /\ strip(str_of(m)) # <<>>
                    /\ lower(strip(str_of(m))) # <<"n", "a", "n">>) IN
    [k \in DOMAIN kept |-> strip(str_of(kept[k]))]

\* The column loop of load_categories from column i on.
RECURSIVE column_loop(_, _)
column_loop(columns, i) ==
    IF i > Len(columns) THEN <<>>
    ELSE LET merchants == cell_texts(columns[i].cells)
             rest == column_loop(columns, i + 1) IN
         IF is_ignore_column(columns[i].name) THEN rest
         ELSE IF merchants # <<>> THEN <<Category(columns[i].name, merchants)>> \o rest
         ELSE rest

\* CategoryLoader.load_categories: a category file is [readable, columns],
\* each column [name, cells].
load_categories(file) ==
    IF ~file.readable THEN Raise("ValueError")
    ELSE LET cats == column_loop(file.columns, 1) IN
         IF cats = <<>> THEN Raise("ValueError") ELSE Return(cats)

\* CategoryLoader.load_ignore_patterns: the texts of the first ignore column.
load_ignore_patterns(file) ==
    IF ~file.readable THEN Raise("ValueError")
    ELSE LET ignore_cols == SelectSeq(file.columns, LAMBDA c : is_ignore_column(c.name)) IN
         IF ignore_cols # <<>> THEN Return(cell_texts(ignore_cols[1].cells))
         ELSE Return(<<>>)

\* CategoryLoader.validate_categories: duplicates are logged only.
validate_categories(cats) == Return(TRUE)

-----------------------------------------------------------------------------
(* budget_loader.py *)

\* str(row['Category']).strip() of a Category cell: names are atomic and
\* carry no blanks; a missing cell reads 'nan'.
budget_category(cell) == IF isna(cell) THEN "nan" ELSE cell.v

\* The row loop of load_budgets with the dictionary built so far: a Budget
\* cell that float() rejects is skipped with a warning; a row with an empty
\* name or with a budget that is not >= 0 (negative, nan) is passed over.
RECURSIVE budget_loop(_, _, _)
budget_loop(df, i, bmap) ==
    IF i > Len(df) THEN bmap
    ELSE LET category == budget_category(df[i].Category)
             budget == df[i].Budget IN
         IF ~isna(budget) /\ ~is_number(budget) THEN budget_loop(df, i + 1, bmap)
         ELSE IF category # "" /\ ~isna(budget) /\ budget.v >= 0
         THEN budget_loop(df, i + 1,
                  [n \in DOMAIN bmap \cup {category} |->
                      IF n = category THEN budget.v ELSE bmap[n]])
         ELSE budget_loop(df, i + 1, bmap)

\* BudgetLoader.load_budgets: filepath is NoValue (None), or Some budget file
\* [readable, header, rows], each row [Category, Budget].
load_budgets(filepath) ==
    IF filepath = NoValue THEN Return(<<>>)
    ELSE LET df == filepath[1] IN
         IF ~df.readable THEN Raise("ValueError")
         ELSE IF ~({"Category", "Budget"} \subseteq df.header) THEN Raise("ValueError")
         ELSE Return(budget_loop(df.rows, 1, <<>>))

\* BudgetLoader.validate_budgets
validate_budgets(bmap) ==
    IF DOMAIN bmap = {} THEN Return(TRUE)
    ELSE IF \E k \in DOMAIN bmap : bmap[k] < 0 THEN Return(FALSE)
    ELSE Return(TRUE)

-----------------------------------------------------------------------------
(* cli.py, dashboard.py *)

\* What a run has done so far: the exception that ended it (if any), the
\* calls it made, in order, and the values it holds.
NewRun ==
    [exc |-> "", steps |-> <<>>, df |-> <<>>, transactions |-> <<>>,
     categories |-> <<>>, ignore_patterns |-> <<>>, categorized |-> NoValue,
     rows |-> <<>>, budgets |-> <<>>, stats |-> NoValue, category_count |-> NoValue,
     uncategorized |-> NoValue, summaries |-> NoValue, details |-> NoValue]

\* The run enters the call named name.
Entered(r, name) == [r EXCEPT !.steps = Append(@, name)]

\* The value of the one run in runs (a run is computed once and handed on).
Only(runs) == CHOOSE r \in runs : TRUE

\* The statements of the try block, one operator each: a statement is not
\* reached after an exception.

run_load_directory(r, args) ==
    IF r.exc # "" THEN r
    ELSE LET o == load_directory(args.input) IN
         [Entered(r, "load_directory") EXCEPT !.exc = o.exc, !.df = o.val]

run_validate_data(r) ==
    IF r.exc # "" THEN r
    ELSE LET o == validate_data(r.df) IN
         [Entered(r, "validate_data") EXCEPT !.exc = o.exc, !.df = o.val]

run_to_transactions(r) ==
    IF r.exc # "" THEN r
    ELSE LET o == to_transactions(r.df) IN
         [Entered(r, "to_transactions") EXCEPT !.exc = o.exc, !.transactions = o.val]

run_load_categories(r, args) ==
    IF r.exc # "" THEN r
    ELSE LET o == load_categories(args.categories) IN
         [Entered(r, "load_categories") EXCEPT !.exc = o.exc, !.categories = o.val]

run_validate_categories(r) ==
    IF r.exc # "" THEN r
    ELSE [Entered(r, "validate_categories")
             EXCEPT !.exc = validate_categories(r.categories).exc]

run_load_ignore_patterns(r, args) ==
    IF r.exc # "" THEN r
    ELSE LET o == load_ignore_patterns(args.categories) IN
         [Entered(r, "load_ignore_patterns") EXCEPT !.exc = o.exc, !.ignore_patterns = o.val]

\* if ignore_patterns: transactions = filter_transactions(transactions)
run_filter_transactions(r) ==
    IF r.exc # "" \/ r.ignore_patterns = <<>> THEN r
    ELSE LET o == filter_transactions(TransactionFilter(r.ignore_patterns),
                                      r.transactions) IN
         IF o.exc # "" THEN [Entered(r, "filter_transactions") EXCEPT !.exc = o.exc]
         ELSE [Entered(r, "filter_transactions") EXCEPT !.transactions = o.val]

\* TransactionCategorizer(categories, config.default_category).categorize_batch
run_categorize_batch(r) ==
    IF r.exc # "" THEN r
    ELSE LET o == categorize_batch(r.categories, "Uncategorized", r.transactions) IN
         [Entered(r, "categorize_batch")
             EXCEPT !.exc = o.exc, !.transactions = o.val, !.categorized = Some(o.val)]

run_insert_transactions(r) ==
    IF r.exc # "" THEN r
    ELSE [Entered(r, "insert_transactions")
             EXCEPT !.exc = insert_transactions(r.rows, r.transactions).exc,
                    !.rows = inserted_rows(r.rows, r.transactions)]

\* if args.budget: budgets = load_budgets()
run_load_budgets(r, args) ==
    IF r.exc # "" \/ args.budget = NoValue THEN r
    ELSE LET o == load_budgets(args.budget) IN
         [Entered(r, "load_budgets") EXCEPT !.exc = o.exc, !.budgets = o.val]

\* if args.budget: validate_budgets(budgets), its value is not looked at
run_validate_budgets(r, args) ==
    IF r.exc # "" \/ args.budget = NoValue THEN r
    ELSE [Entered(r, "validate_budgets") EXCEPT !.exc = validate_budgets(r.budgets).exc]

run_get_total_stats(r) ==
    IF r.exc # "" THEN r
    ELSE LET o == get_total_stats(r.rows) IN
         IF o.exc # "" THEN [Entered(r, "get_total_stats") EXCEPT !.exc = o.exc]
         ELSE [Entered(r, "get_total_stats") EXCEPT !.stats = Some(o.val)]

run_get_category_count(r, kind) ==
    IF r.exc # "" THEN r
    ELSE LET o == get_category_count(r.rows, r.budgets, kind) IN
         IF o.exc # "" THEN [Entered(r, "get_category_count") EXCEPT !.exc = o.exc]
         ELSE [Entered(r, "get_category_count") EXCEPT !.category_count = Some(o.val)]

run_get_uncategorized_count(r) ==
    IF r.exc # "" THEN r
    ELSE LET o == get_uncategorized_count(r.rows) IN
         IF o.exc # "" THEN [Entered(r, "get_uncategorized_count") EXCEPT !.exc = o.exc]
         ELSE [Entered(r, "get_uncategorized_count") EXCEPT !.uncategorized = Some(o.val)]

run_group_by_category(r, kind) ==
    IF r.exc # "" THEN r
    ELSE LET o == group_by_category(r.rows, r.budgets, kind) IN
         IF o.exc # "" THEN [Entered(r, "group_by_category") EXCEPT !.exc = o.exc]
         ELSE [Entered(r, "group_by_category") EXCEPT !.summaries = Some(o.val)]

run_get_transactions_by_category(r, category) ==
    IF r.exc # "" THEN r
    ELSE LET o == get_transactions_by_category(r.rows, category) IN
         IF o.exc # "" THEN [Entered(r, "get_transactions_by_category") EXCEPT !.exc = o.exc]
         ELSE [Entered(r, "get_transactions_by_category") EXCEPT !.details = Some(o.val)]

\* if args.export: analytics.get_summary_dataframe()
run_get_summary_dataframe(r, args, kind) ==
    IF r.exc # "" \/ ~args.export THEN r
    ELSE [Entered(r, "get_summary_dataframe")
             EXCEPT !.exc = group_by_category(r.rows, r.budgets, kind).exc]

\* cmd_categorize / cmd_drilldown up to the budgets: load, filter, categorize,
\* insert, load budgets.
load_and_store(args) ==
    LET r1 == run_load_directory(NewRun, args)
        r2 == Only({run_validate_data(r) : r \in {r1}})
        r3 == Only({run_to_transactions(r) : r \in {r2}})
        r4 == Only({run_load_categories(r, args) : r \in {r3}})
        r5 == Only({run_validate_categories(r) : r \in {r4}})
        r6 == Only({run_load_ignore_patterns(r, args) : r \in {r5}})
        r7 == Only({run_filter_transactions(r) : r \in {r6}})
        r8 == Only({run_categorize_batch(r) : r \in {r7}})
        r9 == Only({run_insert_transactions(r) : r \in {r8}})
        r10 == Only({run_load_budgets(r, args) : r \in {r9}})
    IN Only({run_validate_budgets(r, args) : r \in {r10}})

\* Dashboard.display: the header's three queries, then the summaries.
display(r0, kind) ==
    LET r1 == Only({run_get_total_stats(r) : r \in {r0}})
        r2 == Only({run_get_category_count(r, kind) : r \in {r1}})
        r3 == Only({run_get_uncategorized_count(r) : r \in {r2}})
    IN Only({run_group_by_category(r, kind) : r \in {r3}})

\* Dashboard.display_category_drilldown: the details, and the summaries when
\* there are details.
display_category_drilldown(r0, category, kind) ==
    LET r1 == Only({run_get_transactions_by_category(r, category) : r \in {r0}})
    IN Only({IF r.details = NoValue \/ r.details = Some(<<>>) THEN r
             ELSE run_group_by_category(r, kind) : r \in {r1}})

\* The value of a run: what it did, and the exit code of the command (every
\* exception is caught and turned into exit code 1).
Finished(r) == [exit_code |-> IF r.exc = "" THEN 0 ELSE 1, run |-> r]

\* cli.cmd_categorize
cmd_categorize(args, kind) ==
    LET shown == display(load_and_store(args), kind) IN
    Only({Finished(run_get_summary_dataframe(r, args, kind)) : r \in {shown}})

\* cli.cmd_drilldown
cmd_drilldown(args, kind) ==
    LET shown == display_category_drilldown(load_and_store(args), args.category, kind) IN
    Only({Finished(r) : r \in {shown}})

-----------------------------------------------------------------------------
(* Inputs *)

\* The merchant lists a category is built with: none, the empty pattern, one
\* pattern, upper-case patterns, several patterns, a pattern that is a prefix
\* of another list's pattern.
MerchantLists ==
    { <<>>,
      << <<>> >>,
      << <<"a">> >>,
      << <<"A", "b">> >>,
      << <<"b", "b">>, <<"B">> >>,
      << <<"b", "a">>, <<"a", "a">> >> }

\* The i-th category of a categorizer is named CategoryNames[i].
CategoryNames == <<"A", "B", "C">>

CategoryLists ==
    UNION { { [i \in 1..k |-> Category(CategoryNames[i], m[i])] : m \in [1..k -> MerchantLists] }
            : k \in 0..MaxCats }

\* Categories [A:{"foo"}, B:{"foobar"}] and the description "foobar".
Foo == <<"f", "o", "o">>
FooBar == <<"f", "o", "o", "b", "a", "r">>
FooCategories == << Category("A", <<Foo>>), Category("B", <<FooBar>>) >>

Descriptions == Strings(MaxDescLen) \cup {None, FooBar}

IgnorePool == { <<>>, <<"a">>, <<"A", "b">> }

D9 == <<"9">>
D10 == <<"1", "0">>

\* The transactions a caller's list is made of.
TxnPool ==
    { NewTransaction(D9, 1, <<>>, "Uncategorized"),
      NewTransaction(D9, 1, <<"a", "B">>, "Uncategorized"),
      NewTransaction(D10, -1, <<"b", "A">>, "Uncategorized"),
      NewTransaction(D10, 2, <<"b">>, "Uncategorized") }

\* The lists that are categorized as a batch: TxnPool in one order, with any
\* of its transactions left out.
TxnSeq ==
    << NewTransaction(D9, 1, <<>>, "Uncategorized"),
       NewTransaction(D9, 1, <<"a", "B">>, "Uncategorized"),
       NewTransaction(D10, -1, <<"b", "A">>, "Uncategorized"),
       NewTransaction(D10, 2, <<"b">>, "Uncategorized") >>

TxnLists ==
    { SelectSeq(TxnSeq, LAMBDA t : t \in picked) :
        picked \in {P \in SUBSET TxnPool : Cardinality(P) <= MaxTxns} }

\* A list whose transactions carry a category before they are categorized.
PresetTransactions ==
    << NewTransaction(D9, 1, <<"a", "B">>, "C"),
       NewTransaction(D10, 2, <<>>, "A"),
       NewTransaction(D10, -1, <<"a", "B">>, "Uncategorized") >>

\* The categorized transactions that are inserted into the store.
StorePool ==
    { NewTransaction(D9, -1, <<"a">>, "Gas"),
      NewTransaction(D10, 1, <<"a">>, "Gas"),
      NewTransaction(D9, 2, <<"b">>, "gas"),
      NewTransaction(D10, -2, <<"a">>, "Food"),
      NewTransaction(D10, -1, <<"b">>, "Food"),
      NewTransaction(D9, 1, <<"a">>, "Uncategorized") }

\* The end-to-end example: two categories, three transactions.
ExampleCategories ==
    << Category("Restaurants", << <<"S", "T", "A", "R", "B", "U", "C", "K", "S">> >>),
       Category("Gas", << <<"S", "H", "E", "L", "L">> >>) >>

ExampleTransactions ==
    << NewTransaction(D9, -50,
           <<"S", "T", "A", "R", "B", "U", "C", "K", "S", " ", "#", "1">>, "Uncategorized"),
       NewTransaction(D9, -12,
           <<"S", "H", "E", "L", "L", " ", "G", "A", "S">>, "Uncategorized"),
       NewTransaction(D9, 2000,
           <<"P", "A", "Y", "R", "O", "L", "L", " ", "D", "E", "P", "O", "S", "I", "T">>,
           "Uncategorized") >>

\* The default category names a categorizer is constructed with.
DefaultNames == {"Uncategorized", "Other"}

\* The rows of the transaction files: a plain row, a row whose description
\* has the ignore pattern of the category files, a row with an amount that is
\* no number, a row of missing cells.
RowPlain == [date |-> Str(D9), amount |-> Num(-1), description |-> Str(<<"a", "B">>)]
RowIgnored == [date |-> Str(D10), amount |-> Num(2), description |-> Str(<<"b", "B">>)]
RowText == [date |-> Str(D10), amount |-> Str(<<"x">>), description |-> Str(<<"b">>)]
RowMissing == [date |-> NaN, amount |-> NaN, description |-> NaN]

CsvFiles ==
    { [readable |-> TRUE, header |-> <<"Date", "Amount", "Description">>,
       rows |-> <<RowPlain, RowIgnored>>],
      [readable |-> TRUE, header |-> <<"Memo", "Update", "AMOUNT", "Desc">>,
       rows |-> <<RowText>>],
      [readable |-> TRUE, header |-> <<"Date", "Amount", "Description">>,
       rows |-> <<RowMissing>>],
      [readable |-> TRUE, header |-> <<"Date", "Amount", "Description">>,
       rows |-> <<>>],
      [readable |-> TRUE, header |-> <<"Date", "Memo">>, rows |-> <<RowPlain>>],
      [readable |-> FALSE, header |-> <<>>, rows |-> <<>>] }

\* The input directories: a missing one, and those with up to MaxFiles files.
Directories ==
    {[exists |-> FALSE, csv_files |-> <<>>]}
    \cup {[exists |-> TRUE, csv_files |-> f] : f \in SeqsUpTo(CsvFiles, MaxFiles)}

\* The frames load_directory returns, and those that pass validate_data.
LoadedFrames ==
    {load_directory(d).val : d \in {e \in Directories : load_directory(e).exc = ""}}

ValidatedFrames ==
    {validate_data(df).val : df \in {f \in LoadedFrames : validate_data(f).exc = ""}}

\* The category files: categories with an ignore column, without one, a file
\* that cannot be read, a file whose only category column has no merchant.
CategoryFiles ==
    { [readable |-> TRUE,
       columns |-> << [name |-> "A", cells |-> <<Str(<<"a">>), NaN, Str(<<"A", "b">>)>>],
                      [name |-> "Ignore", cells |-> <<Str(<<"b", "b">>), NaN>>],
                      [name |-> "B", cells |-> <<Str(<<" ">>), Str(<<"b", " ">>)>>] >>],
      [readable |-> TRUE,
       columns |-> << [name |-> "A", cells |-> <<Str(<<"a">>)>>] >>],
      [readable |-> FALSE, columns |-> <<>>],
      [readable |-> TRUE,
       columns |-> << [name |-> "A", cells |-> <<NaN, Str(<<" ">>), Str(<<" ", "N", "a", "N">>)>>],
                      [name |-> "IGNORE", cells |-> <<Str(<<"a">>)>>] >>] }

\* The budget files: a valid one, one with a negative amount, one without
\* the Budget column, one with cells that are no budgets, an unreadable one.
BudgetNegative ==
    [readable |-> TRUE, header |-> {"Category", "Budget"},
     rows |-> << [Category |-> Str("A"), Budget |-> Num(-5)],
                 [Category |-> Str("B"), Budget |-> Num(10)] >>]

BudgetFiles ==
    { [readable |-> TRUE, header |-> {"Category", "Budget"},
       rows |-> << [Category |-> Str("A"), Budget |-> Num(40)],
                   [Category |-> Str("B"), Budget |-> Num(0)],
                   [Category |-> Str("A"), Budget |-> Num(4)] >>],
      BudgetNegative,
      [readable |-> TRUE, header |-> {"Category", "Amount"},
       rows |-> << [Category |-> Str("A"), Budget |-> Num(40)] >>],
      [readable |-> TRUE, header |-> {"Category", "Budget"},
       rows |-> << [Category |-> NaN, Budget |-> Num(3)],
                   [Category |-> Str("A"), Budget |-> Str(<<"x">>)],
                   [Category |-> Str(""), Budget |-> Num(1)],
                   [Category |-> Str("B"), Budget |-> NaN] >>],
      [readable |-> FALSE, header |-> {}, rows |-> <<>>] }

\* The command lines: input directory, category file, --budget, --export and
\* (drilldown) the category.
CategorizeArgs ==
    [input : Directories, categories : CategoryFiles,
     budget : {NoValue} \cup {Some(b) : b \in BudgetFiles}, export : BOOLEAN]

DrilldownArgs ==
    [input : Directories, categories : CategoryFiles,
     budget : {NoValue} \cup {Some(b) : b \in BudgetFiles}, category : {"A", "Other"}]

StoreCategories == {"Food", "Gas", "Uncategorized", "gas", "Other"}

\* The n of get_top_categories(n): none, fewer than the categories, the default.
TopNs == {0, 1, 5}

\* The budget mappings Analytics is constructed with (None becomes {}).
BudgetMaps ==
    { <<>>,
      ("Gas" :> 40),
      ("Gas" :> 0) @@ ("Food" :> 1) @@ ("Other" :> 5) }

\* The budget dictionaries validate_budgets is called with.
BudgetDicts ==
    BudgetMaps \cup { ("A" :> -5), ("A" :> 40) @@ ("B" :> -1) }

\* The store next to its caller: one category, the caller's lists, and the
\* names update_category writes.
StoreCategorizer == <<Category("Food", <<<<"a">>>>)>>

CallerLists ==
    { <<NewTransaction(D9, -1, <<"a">>, "Uncategorized")>>,
      <<NewTransaction(D10, 1, <<"b">>, "Gas"),
        NewTransaction(D9, -1, <<"a">>, "Uncategorized")>> }

UpdateNames == {"Food", "Uncategorized"}

-----------------------------------------------------------------------------
(* The calls *)

Call(op, arg, outcome) == [op |-> op, arg |-> arg, exc |-> outcome.exc, val |-> outcome.val]

NoCall == Call("", <<>>, Return(<<>>))

\* categorizer.categorize_transaction(description)
CategorizeTransaction(description) ==
    /\ ret' = Call("categorize_transaction", description,
                   categorize_transaction(categories, default_category, description))
    /\ UNCHANGED <<categories, default_category, ignore_patterns, transactions,
                   rows, budgets, argsort_kind>>

\* categorizer.get_matching_category(description)
GetMatchingCategory(description) ==
    /\ ret' = Call("get_matching_category", description,
                   get_matching_category(categories, default_category, description))
    /\ UNCHANGED <<categories, default_category, ignore_patterns, transactions,
                   rows, budgets, argsort_kind>>

\* transaction_filter.should_ignore(description)
ShouldIgnore(description) ==
    /\ ret' = Call("should_ignore", description,
                   should_ignore(ignore_patterns, description))
    /\ UNCHANGED <<categories, default_category, ignore_patterns, transactions,
                   rows, budgets, argsort_kind>>

\* transaction_filter.filter_transactions(transactions)
FilterTransactions ==
    /\ ret' = Call("filter_transactions", transactions,
                   filter_transactions(ignore_patterns, transactions))
    /\ UNCHANGED <<categories, default_category, ignore_patterns, transactions,
                   rows, budgets, argsort_kind>>

\* db.insert_transactions(batch)
InsertTransactions(batch) ==
    /\ Len(rows) + Len(batch) <= MaxRows
    /\ rows' = inserted_rows(rows, batch)
    /\ ret' = Call("insert_transactions", batch, insert_transactions(rows, batch))
    /\ UNCHANGED <<categories, default_category, ignore_patterns, transactions,
                   budgets, argsort_kind>>

\* analytics.group_by_category()
GroupByCategory ==
    /\ ret' = Call("group_by_category", <<>>,
                   group_by_category(rows, budgets, argsort_kind))
    /\ UNCHANGED <<categories, default_category, ignore_patterns, transactions,
                   rows, budgets, argsort_kind>>

\* analytics.get_transactions_by_category(category)
GetTransactionsByCategory(category) ==
    /\ ret' = Call("get_transactions_by_category", category,
                   get_transactions_by_category(rows, category))
    /\ UNCHANGED <<categories, default_category, ignore_patterns, transactions,
                   rows, budgets, argsort_kind>>

\* analytics.get_total_stats()
GetTotalStats ==
    /\ ret' = Call("get_total_stats", <<>>, get_total_stats(rows))
    /\ UNCHANGED <<categories, default_category, ignore_patterns, transactions,
                   rows, budgets, argsort_kind>>

\* analytics.get_top_categories(n)
GetTopCategories(n) ==
    /\ ret' = Call("get_top_categories", n,
                   get_top_categories(rows, budgets, argsort_kind, n))
    /\ UNCHANGED <<categories, default_category, ignore_patterns, transactions,
                   rows, budgets, argsort_kind>>

\* analytics.get_uncategorized_count()
GetUncategorizedCount ==
    /\ ret' = Call("get_uncategorized_count", <<>>, get_uncategorized_count(rows))
    /\ UNCHANGED <<categories, default_category, ignore_patterns, transactions,
                   rows, budgets, argsort_kind>>

\* analytics.get_category_count()
GetCategoryCount ==
    /\ ret' = Call("get_category_count", <<>>,
                   get_category_count(rows, budgets, argsort_kind))
    /\ UNCHANGED <<categories, default_category, ignore_patterns, transactions,
                   rows, budgets, argsort_kind>>

\* analytics.get_all_categories()
GetAllCategories ==
    /\ ret' = Call("get_all_categories", <<>>,
                   get_all_categories(rows, budgets, argsort_kind))
    /\ UNCHANGED <<categories, default_category, ignore_patterns, transactions,
                   rows, budgets, argsort_kind>>

\* categorizer.categorize_batch(transactions): the list is changed in place.
CategorizeBatch ==
    LET out == categorize_batch(categories, default_category, transactions) IN
    /\ transactions' = out.val
    /\ ret' = Call("categorize_batch", transactions, out)
    /\ UNCHANGED <<categories, default_category, ignore_patterns,
                   rows, budgets, argsort_kind>>

\* budget_loader.load_budgets() of a loader constructed with filepath
LoadBudgets(filepath) ==
    /\ ret' = Call("load_budgets", filepath, load_budgets(filepath))
    /\ UNCHANGED <<categories, default_category, ignore_patterns, transactions,
                   rows, budgets, argsort_kind>>

\* budget_loader.validate_budgets(bmap)
ValidateBudgets(bmap) ==
    /\ ret' = Call("validate_budgets", bmap, validate_budgets(bmap))
    /\ UNCHANGED <<categories, default_category, ignore_patterns, transactions,
                   rows, budgets, argsort_kind>>

\* CategoryLoader(file).load_categories()
LoadCategories(file) ==
    /\ ret' = Call("load_categories", file, load_categories(file))
    /\ UNCHANGED <<categories, default_category, ignore_patterns, transactions,
                   rows, budgets, argsort_kind>>

\* CategoryLoader(file).load_ignore_patterns()
LoadIgnorePatterns(file) ==
    /\ ret' = Call("load_ignore_patterns", file, load_ignore_patterns(file))
    /\ UNCHANGED <<categories, default_category, ignore_patterns, transactions,
                   rows, budgets, argsort_kind>>

\* csv_loader.validate_data(df): the amount column of df is coerced in place.
ValidateData(df) ==
    /\ ret' = Call("validate_data", df, validate_data(df))
    /\ UNCHANGED <<categories, default_category, ignore_patterns, transactions,
                   rows, budgets, argsort_kind>>

\* csv_loader.to_transactions(df) of a validated frame
ToTransactions(df) ==
    /\ ret' = Call("to_transactions", df, to_transactions(df))
    /\ UNCHANGED <<categories, default_category, ignore_patterns, transactions,
                   rows, budgets, argsort_kind>>

\* cmd_categorize(args): the one command of a process; its database lives
\* and dies with the run.
CmdCategorize(args) ==
    /\ ret' = Call("cmd_categorize", args, Return(cmd_categorize(args, argsort_kind)))
    /\ UNCHANGED <<categories, default_category, ignore_patterns, transactions,
                   rows, budgets, argsort_kind>>

\* cmd_drilldown(args): the one command of a process.
CmdDrilldown(args) ==
    /\ ret' = Call("cmd_drilldown", args, Return(cmd_drilldown(args, argsort_kind)))
    /\ UNCHANGED <<categories, default_category, ignore_patterns, transactions,
                   rows, budgets, argsort_kind>>

\* db.update_category(transaction_id, category)
UpdateCategory(transaction_id, category) ==
    /\ rows' = updated_rows(rows, transaction_id, category)
    /\ ret' = Call("update_category", <<transaction_id, category>>,
                   update_category(rows, transaction_id, category))
    /\ UNCHANGED <<categories, default_category, ignore_patterns, transactions,
                   budgets, argsort_kind>>

\* db.get_all_transactions()
GetAllTransactions ==
    /\ ret' = Call("get_all_transactions", <<>>, get_all_transactions(rows))
    /\ UNCHANGED <<categories, default_category, ignore_patterns, transactions,
                   rows, budgets, argsort_kind>>

\* db.get_by_category(category)
GetByCategory(category) ==
    /\ ret' = Call("get_by_category", category, get_by_category(rows, category))
    /\ UNCHANGED <<categories, default_category, ignore_patterns, transactions,
                   rows, budgets, argsort_kind>>

\* The caller assigns to a field of one of its Transaction objects
\* (the dataclass is not frozen): transactions[i].amount = amount
SetAmount(i, amount) ==
    /\ i \in DOMAIN transactions
    /\ transactions' = [transactions EXCEPT ![i].amount = amount]
    /\ ret' = Call("setattr", <<i, amount>>, Return(None))
    /\ UNCHANGED <<categories, default_category, ignore_patterns,
                   rows, budgets, argsort_kind>>

-----------------------------------------------------------------------------
(* The categorizer on its own *)

InitCategorizer ==
    /\ categories \in CategoryLists \cup {FooCategories}
    /\ default_category = "Uncategorized"
    /\ ignore_patterns = <<>>
    /\ transactions = <<>>
    /\ rows = <<>>
    /\ budgets = <<>>
    /\ argsort_kind = "stable"
    /\ ret = NoCall

NextCategorizer == \E d \in Descriptions : CategorizeTransaction(d)

SpecCategorizer == InitCategorizer /\ [][NextCategorizer]_vars

(* The categorizer's diagnostic variant on its own *)

InitMatching == InitCategorizer

NextMatching == \E d \in Descriptions : GetMatchingCategory(d)

SpecMatching == InitMatching /\ [][NextMatching]_vars

(* The filter on its own *)

InitFilter ==
    /\ categories = <<>>
    /\ default_category = "Uncategorized"
    /\ ignore_patterns \in {TransactionFilter(p) : p \in SeqsUpTo(IgnorePool, MaxPatterns)}
    /\ transactions \in SeqsUpTo(TxnPool, MaxTxns)
    /\ rows = <<>>
    /\ budgets = <<>>
    /\ argsort_kind = "stable"
    /\ ret = NoCall

NextFilter ==
    \/ \E t \in TxnPool : ShouldIgnore(t.description)
    \/ FilterTransactions

SpecFilter == InitFilter /\ [][NextFilter]_vars

(* A list is categorized, inserted as categorized, and aggregated *)

InitBatch ==
    /\ categories \in CategoryLists \cup {ExampleCategories}
    /\ default_category \in DefaultNames
    /\ ignore_patterns = <<>>
    /\ transactions \in TxnLists \cup {ExampleTransactions, PresetTransactions}
    /\ rows = <<>>
    /\ budgets = <<>>
    /\ argsort_kind \in {"stable", "unstable"}
    /\ ret = NoCall

NextBatch ==
    \/ CategorizeBatch
    \/ ret.op = "categorize_batch" /\ InsertTransactions(transactions)
    \/ GroupByCategory
    \/ GetUncategorizedCount

SpecBatch == InitBatch /\ [][NextBatch]_vars

(* The commands and the budget loader *)

InitCli ==
    /\ categories = <<>>
    /\ default_category = "Uncategorized"
    /\ ignore_patterns = <<>>
    /\ transactions = <<>>
    /\ rows = <<>>
    /\ budgets = <<>>
    /\ argsort_kind \in {"stable", "unstable"}
    /\ ret = NoCall

NextCli ==
    \/ ret.op = "" /\ \E args \in CategorizeArgs : CmdCategorize(args)
    \/ ret.op = "" /\ \E args \in DrilldownArgs : CmdDrilldown(args)
    \/ \E filepath \in {NoValue} \cup {Some(b) : b \in BudgetFiles} : LoadBudgets(filepath)
    \/ \E bmap \in BudgetDicts : ValidateBudgets(bmap)
    \/ \E file \in CategoryFiles : LoadCategories(file)
    \/ \E file \in CategoryFiles : LoadIgnorePatterns(file)
    \/ \E df \in LoadedFrames : ValidateData(df)
    \/ \E df \in ValidatedFrames : ToTransactions(df)

SpecCli == InitCli /\ [][NextCli]_vars

(* The store under inserts and updates, next to its caller's objects *)

InitStore ==
    /\ categories = StoreCategorizer
    /\ default_category = "Uncategorized"
    /\ ignore_patterns = <<>>
    /\ transactions \in CallerLists
    /\ rows = <<>>
    /\ budgets = <<>>
    /\ argsort_kind = "stable"
    /\ ret = NoCall

NextStore ==
    \/ \E n \in 1..MaxTxns :
          n <= Len(transactions) /\ InsertTransactions(SubSeq(transactions, 1, n))
    \/ \E id \in 1..(MaxRows + 1), c \in UpdateNames : UpdateCategory(id, c)
    \/ CategorizeBatch
    \/ \E i \in 1..MaxTxns : SetAmount(i, 0)
    \/ GetAllTransactions
    \/ \E c \in UpdateNames : GetByCategory(c)
    \/ GroupByCategory
    \/ GetTotalStats
    \/ GetUncategorizedCount
    \/ \E c \in UpdateNames : GetTransactionsByCategory(c)
    \/ GetAllCategories

SpecStore == InitStore /\ [][NextStore]_vars

(* The store and the analytics over it *)

Init ==
    /\ categories = <<>>
    /\ default_category = "Uncategorized"
    /\ ignore_patterns = <<>>
    /\ transactions = <<>>
    /\ rows = <<>>
    /\ budgets \in BudgetMaps
    /\ argsort_kind \in {"stable", "unstable"}
    /\ ret = NoCall

Next ==
    \/ \E batch \in SeqsUpTo(StorePool, MaxRows) : InsertTransactions(batch)
    \/ GroupByCategory
    \/ \E c \in StoreCategories : GetTransactionsByCategory(c)
    \/ GetTotalStats
    \/ \E n \in TopNs : GetTopCategories(n)
    \/ GetUncategorizedCount
    \/ GetCategoryCount
    \/ GetAllCategories

Spec == Init /\ [][Next]_vars

-----------------------------------------------------------------------------
(* Properties of the categorizer *)

CasePairs ==
    { {"a", "A"}, {"b", "B"}, {"c", "C"}, {"d", "D"}, {"e", "E"}, {"f", "F"},
      {"g", "G"}, {"h", "H"}, {"i", "I"}, {"j", "J"}, {"k", "K"}, {"l", "L"},
      {"m", "M"}, {"n", "N"}, {"o", "O"}, {"p", "P"}, {"q", "Q"}, {"r", "R"},
      {"s", "S"}, {"t", "T"}, {"u", "U"}, {"v", "V"}, {"w", "W"}, {"x", "X"},
      {"y", "Y"}, {"z", "Z"} }

SameLetter(c1, c2) == c1 = c2 \/ {c1, c2} \in CasePairs

\* pattern is a case-insensitive substring of text
ContainsIgnoringCase(text, pattern) ==
    \E i \in 0..(Len(text) - Len(pattern)) :
        \A j \in 1..Len(pattern) : SameLetter(text[i + j], pattern[j])

\* some merchant pattern of category c is a case-insensitive substring of d
SomePatternIn(c, d) ==
    \E k \in DOMAIN c.merchants : ContainsIgnoringCase(d, c.merchants[k])

\* C1: for a non-empty description, categorize_transaction returns the name of
\* the earliest category in list order one of whose merchant patterns is a
\* case-insensitive substring of the description; with [A:{"foo"},
\* B:{"foobar"}] and "foobar" it returns "A".
C1_FirstMatchWins ==
    (ret.op = "categorize_transaction" /\ ret.arg # None /\ ret.arg # <<>>) =>
        /\ \A i \in DOMAIN categories :
              ( /\ SomePatternIn(categories[i], ret.arg)
                /\ \A h \in 1..(i - 1) : ~SomePatternIn(categories[h], ret.arg) )
              => (ret.exc = "" /\ ret.val = categories[i].name)
        /\ (categories = FooCategories /\ ret.arg = FooBar)
              => (ret.exc = "" /\ ret.val = "A")

\* "foobar" has been categorized with [A:{"foo"}, B:{"foobar"}].
C1_Witness ==
    /\ ret.op = "categorize_transaction"
    /\ categories = FooCategories
    /\ ret.arg = FooBar
    /\ ret.val = "A"

\* C2: categorize_transaction returns the default category, and does not
\* raise, when the description is "", when it is None, and when no merchant
\* pattern of any category matches the description.
C2_DefaultWhenNoMatch ==
    ( /\ ret.op = "categorize_transaction"
      /\ \/ ret.arg = None
         \/ ret.arg = <<>>
         \/ \A i \in DOMAIN categories : ~SomePatternIn(categories[i], ret.arg) )
    => (ret.exc = "" /\ ret.val = default_category)

\* None has been categorized by a categorizer whose first category has the
\* empty pattern, which is in every str.
C2_Witness ==
    /\ ret.op = "categorize_transaction"
    /\ ret.arg = None
    /\ Len(categories) = MaxCats
    /\ categories[1].merchants = << <<>> >>
    /\ ret.val = default_category

-----------------------------------------------------------------------------
(* Properties of the filter *)

\* no ignore pattern is a case-insensitive substring of t's description
Kept(t) ==
    \A k \in DOMAIN ignore_patterns : ~ContainsIgnoringCase(t.description, ignore_patterns[k])

\* C3: filter_transactions returns exactly the subsequence of its input, in
\* the original order, of the transactions that contain no ignore pattern; the
\* input list is left as it was, no patterns give the identity and an empty
\* input gives an empty output.
C3_FilterIsSubsequence ==
    ret.op = "filter_transactions" =>
        /\ ret.exc = ""
        /\ ret.val = SelectSeq(ret.arg, Kept)
        /\ transactions = ret.arg
        /\ (ignore_patterns = <<>> => ret.val = ret.arg)
        /\ (ret.arg = <<>> => ret.val = <<>>)

\* A filter call has dropped a transaction whose description has the pattern
\* only in another letter case, and has kept another one.
C3_Witness ==
    /\ ret.op = "filter_transactions"
    /\ Len(ret.val) >= 1
    /\ Len(ret.val) < Len(ret.arg)
    /\ \E i \in DOMAIN ret.arg :
          /\ ~Kept(ret.arg[i])
          /\ \A k \in DOMAIN ignore_patterns :
                ~str_in(ignore_patterns[k], ret.arg[i].description)

-----------------------------------------------------------------------------
(* Properties of the analytics *)

StoredCategories == {rows[i].category : i \in DOMAIN rows}

\* the positions of the stored transactions with exactly this category
RowsOf(c) == {i \in DOMAIN rows : rows[i].category = c}

RECURSIVE SumOver(_)
SumOver(I) ==
    IF I = {} THEN 0
    ELSE LET i == CHOOSE x \in I : TRUE IN rows[i].amount + SumOver(I \ {i})

\* the sum of the percentage fields, as an exact fraction
RECURSIVE PercentageSum(_)
PercentageSum(summaries) ==
    IF summaries = <<>> THEN Frac(0, 1)
    ELSE LET h == Head(summaries).percentage
             r == PercentageSum(Tail(summaries)) IN
         Frac(h.num * r.den + r.num * h.den, h.den * r.den)

\* the store position of the first transaction with this category
FirstSeen(c) == CHOOSE i \in RowsOf(c) : \A j \in RowsOf(c) : i <= j

\* C4: for a non-empty store group_by_category returns exactly one summary per
\* category present in the store and none for another name, with count the
\* number of its transactions, raw_total their signed sum, total the absolute
\* value of raw_total and average raw_total / count.
C4_SummaryPerCategory ==
    (ret.op = "group_by_category" /\ rows # <<>>) =>
        /\ ret.exc = ""
        /\ \A c \in StoredCategories :
              Cardinality({k \in DOMAIN ret.val : ret.val[k].category = c}) = 1
        /\ \A k \in DOMAIN ret.val :
              LET s == ret.val[k] IN
              /\ s.category \in StoredCategories
              /\ s.count = Cardinality(RowsOf(s.category))
              /\ s.raw_total = SumOver(RowsOf(s.category))
              /\ s.total = Abs(SumOver(RowsOf(s.category)))
              /\ s.average.num * s.count = s.raw_total * s.average.den

\* C5: for a non-empty store the percentages of the summaries returned by
\* group_by_category add up to 100 (within 1e-6), with or without budgets.
C5_PercentagesSumTo100 ==
    (ret.op = "group_by_category" /\ rows # <<>>) =>
        /\ ret.exc = ""
        /\ LET p == PercentageSum(ret.val) IN
           Abs(p.num - 100 * p.den) * 1000000 <= Abs(p.den)

\* C6: the list returned by group_by_category is ordered by total,
\* non-increasing.
C6_SortedByTotal ==
    (ret.op = "group_by_category" /\ rows # <<>>) =>
        /\ ret.exc = ""
        /\ \A k \in 1..(Len(ret.val) - 1) : ret.val[k].total >= ret.val[k + 1].total

\* C7: two categories with identical total are listed in first-seen order:
\* the one whose first transaction is earlier in the store comes first.
C7_TiesInFirstSeenOrder ==
    (ret.op = "group_by_category" /\ rows # <<>>) =>
        /\ ret.exc = ""
        /\ \A k, l \in DOMAIN ret.val :
              (k < l /\ ret.val[k].total = ret.val[l].total)
              => FirstSeen(ret.val[k].category) < FirstSeen(ret.val[l].category)

\* C8: two successive group_by_category calls with no store mutation between
\* them return equal summaries in equal order, and a call leaves the store and
\* the budget mapping unchanged.
C8_Idempotent ==
    [][ (ret'.op = "group_by_category" =>
            (ret'.exc = "" /\ rows' = rows /\ budgets' = budgets))
        /\ ((ret.op = "group_by_category" /\ ret'.op = "group_by_category") =>
               ret'.val = ret.val) ]_vars

\* C9: every summary of a category with a budget entry (an entry of 0
\* included) has that budget and deviation = budget - total; every summary of
\* a category without entry has neither.
C9_BudgetAndDeviation ==
    (ret.op = "group_by_category" /\ rows # <<>>) =>
        /\ ret.exc = ""
        /\ \A k \in DOMAIN ret.val :
              LET s == ret.val[k] IN
              IF s.category \in DOMAIN budgets
              THEN /\ s.budget = Some(budgets[s.category])
                   /\ s.deviation = Some(budgets[s.category] - s.total)
              ELSE s.budget = NoValue /\ s.deviation = NoValue

DigitValue(c) ==
    CASE c = "0" -> 0
      [] c = "1" -> 1
      [] c = "9" -> 9

\* s <= t in lexicographic order
LexLeq(s, t) ==
    \/ Len(s) <= Len(t) /\ \A i \in 1..Len(s) : s[i] = t[i]
    \/ \E i \in 1..Len(s) :
          /\ i <= Len(t)
          /\ \A j \in 1..(i - 1) : s[j] = t[j]
          /\ DigitValue(s[i]) < DigitValue(t[i])

\* C10: get_transactions_by_category(c) returns one detail (date, description,
\* amount) per stored transaction with category c and none else, by date
\* ascending in lexicographic order, equal dates in insertion order.
C10_DrilldownSortedByDate ==
    ret.op = "get_transactions_by_category" =>
        /\ ret.exc = ""
        /\ \E p \in [DOMAIN ret.val -> RowsOf(ret.arg)] :
              /\ \A i \in RowsOf(ret.arg) : \E k \in DOMAIN ret.val : p[k] = i
              /\ \A k, l \in DOMAIN ret.val : k < l =>
                    /\ p[k] # p[l]
                    /\ LexLeq(rows[p[k]].date, rows[p[l]].date)
                    /\ (rows[p[k]].date = rows[p[l]].date => p[k] < p[l])
              /\ \A k \in DOMAIN ret.val :
                    ret.val[k] = [date |-> rows[p[k]].date,
                                  description |-> rows[p[k]].description,
                                  amount |-> rows[p[k]].amount]

\* C11: on an empty store group_by_category returns the empty list and
\* get_total_stats returns total_count 0, total_amount 0.0 and average_amount
\* 0.0 without dividing; on any store get_transactions_by_category of a
\* category name that no stored transaction has returns the empty list.
C11_EmptyResults ==
    /\ (ret.op = "group_by_category" /\ rows = <<>>) =>
           (ret.exc = "" /\ ret.val = <<>>)
    /\ (ret.op = "get_total_stats" /\ rows = <<>>) =>
           /\ ret.exc = ""
           /\ ret.val.total_count = 0
           /\ ret.val.total_amount = 0
           /\ ret.val.average_amount = Frac(0, 1)
    /\ (ret.op = "get_transactions_by_category" /\ RowsOf(ret.arg) = {}) =>
           (ret.exc = "" /\ ret.val = <<>>)

\* A full store has been asked for the transactions of a category it does not
\* have, and has answered with the empty list.
C11_Witness ==
    /\ ret.op = "get_transactions_by_category"
    /\ Len(rows) = MaxRows
    /\ ret.arg \notin StoredCategories
    /\ ret.exc = ""
    /\ ret.val = <<>>

\* C12: for a non-empty store get_total_stats returns total_count = the number
\* of stored transactions, total_amount = the signed sum of all stored
\* amounts, and average_amount = total_amount / total_count.
C12_TotalStats ==
    (ret.op = "get_total_stats" /\ rows # <<>>) =>
        /\ ret.exc = ""
        /\ ret.val.total_count = Len(rows)
        /\ ret.val.total_amount = SumOver(DOMAIN rows)
        /\ ret.val.average_amount.num * Len(rows)
              = SumOver(DOMAIN rows) * ret.val.average_amount.den

\* C14: get_all_categories returns the distinct category names present in the
\* store, each once, in ascending order, "Uncategorized" included when it is
\* present.
C14_AllCategoriesSorted ==
    ret.op = "get_all_categories" =>
        /\ ret.exc = ""
        /\ {ret.val[k] : k \in DOMAIN ret.val} = StoredCategories
        /\ Len(ret.val) = Cardinality(StoredCategories)
        /\ \A k \in 1..(Len(ret.val) - 1) :
              name_rank(ret.val[k]) < name_rank(ret.val[k + 1])

AggregationQueries ==
    {"group_by_category", "get_total_stats", "get_top_categories",
     "get_uncategorized_count", "get_category_count",
     "get_transactions_by_category", "get_all_categories"}

\* C16: every query of the aggregation engine returns a value and does not
\* raise, whatever the store holds, a non-empty store included.
C16_QueriesReturn ==
    ret.op \in AggregationQueries => ret.exc = ""

-----------------------------------------------------------------------------
(* Properties of a categorized and stored batch *)

\* the fraction p is within 0.05 of hundredths / 100
About(p, hundredths) == Abs(100 * p.num - hundredths * p.den) <= 5 * Abs(p.den)

\* the store holds the three transactions of the example, in their order
ExampleStored ==
    /\ categories = ExampleCategories
    /\ default_category = "Uncategorized"
    /\ Len(rows) = Len(ExampleTransactions)
    /\ \A i \in DOMAIN rows :
          /\ rows[i].amount = ExampleTransactions[i].amount
          /\ rows[i].description = ExampleTransactions[i].description

\* C13: after categorize_batch and insertion of the example (-50 "STARBUCKS
\* #1", -12 "SHELL GAS", 2000 "PAYROLL DEPOSIT"; Restaurants:["STARBUCKS"],
\* Gas:["SHELL"]; default "Uncategorized") group_by_category returns exactly
\* the summaries Uncategorized{1, 2000, 2000, about 96.98}, Restaurants{1, 50,
\* -50, about 2.4}, Gas{1, 12, -12, about 0.58}, in this order.
C13_EndToEndExample ==
    (ret.op = "group_by_category" /\ ExampleStored) =>
        /\ ret.exc = ""
        /\ [k \in DOMAIN ret.val |-> ret.val[k].category]
              = <<"Uncategorized", "Restaurants", "Gas">>
        /\ [k \in DOMAIN ret.val |-> ret.val[k].count] = <<1, 1, 1>>
        /\ [k \in DOMAIN ret.val |-> ret.val[k].total] = <<2000, 50, 12>>
        /\ \A k \in DOMAIN ret.val :
              ret.val[k].average.num = <<2000, -50, -12>>[k] * ret.val[k].average.den
        /\ About(ret.val[1].percentage, 9698)
        /\ About(ret.val[2].percentage, 240)
        /\ About(ret.val[3].percentage, 58)

\* the stored transactions whose description no pattern of the categorizer is
\* a case-insensitive substring of
UnmatchedRows ==
    {i \in DOMAIN rows :
        \/ rows[i].description = <<>>
        \/ \A k \in DOMAIN categories : ~SomePatternIn(categories[k], rows[i].description)}

\* C15: get_uncategorized_count returns the number of stored transactions
\* whose category is exactly "Uncategorized", whatever default name the
\* categorizer has; when that default is "Uncategorized" this is the number of
\* stored transactions that matched no pattern.
C15_UncategorizedCount ==
    ret.op = "get_uncategorized_count" =>
        /\ ret.exc = ""
        /\ ret.val = Cardinality(RowsOf("Uncategorized"))
        /\ default_category = "Uncategorized" => ret.val = Cardinality(UnmatchedRows)

\* C17: after categorize_batch every transaction of the list has a non-empty
\* category that is the default category or the name of a category of the
\* categorizer, and it is the name of a category only if a pattern of that
\* category is a case-insensitive substring of the description.
C17_CategoryAssigned ==
    ret.op = "categorize_batch" =>
        /\ ret.exc = ""
        /\ Len(transactions) = Len(ret.arg)
        /\ \A i \in DOMAIN transactions :
              LET t == transactions[i] IN
              /\ t.category # ""
              /\ \/ t.category = default_category
                 \/ \E k \in DOMAIN categories :
                       /\ categories[k].name = t.category
                       /\ SomePatternIn(categories[k], t.description)

\* A batch has been categorized in which one transaction got a category name
\* and another one the default, under a default other than "Uncategorized".
C17_Witness ==
    /\ ret.op = "categorize_batch"
    /\ default_category # "Uncategorized"
    /\ \E i, j \in DOMAIN transactions :
          /\ transactions[i].category = default_category
          /\ transactions[i].description # <<>>
          /\ transactions[j].category \in {categories[k].name : k \in DOMAIN categories}

\* C30: categorize_batch returns the list it was given, with the same
\* elements in the same order and every field but category as before; the
\* category it writes is the one categorize_transaction gives for the
\* description, whatever category the transaction held, equal for equal
\* descriptions; a second categorize_batch changes nothing.
C30_BatchFrame ==
    [][ ret'.op = "categorize_batch" =>
          /\ ret'.exc = ""
          /\ ret'.val = transactions'
          /\ Len(transactions') = Len(transactions)
          /\ \A i \in DOMAIN transactions :
                /\ transactions'[i] =
                      [transactions[i] EXCEPT !.category = transactions'[i].category]
                /\ transactions'[i].category =
                      categorize_transaction(categories, default_category,
                                             transactions[i].description).val
                /\ \A j \in DOMAIN transactions :
                      transactions[i].description = transactions[j].description
                         => transactions'[i].category = transactions'[j].category
          /\ categorize_batch(categories, default_category, transactions').val
                = transactions'
          /\ ret.op = "categorize_batch" => transactions' = transactions
      ]_vars

\* A list has been categorized in which a transaction held a category that
\* is not the dataclass default and got another one, and a transaction with
\* the same description held the default and got the same one.
C30_Witness ==
    /\ ret.op = "categorize_batch"
    /\ ret.exc = ""
    /\ \E i, j \in DOMAIN ret.arg :
          /\ ret.arg[i].category # "Uncategorized"
          /\ ret.arg[i].category # ret.val[i].category
          /\ ret.arg[j].category = "Uncategorized"
          /\ ret.arg[j].description = ret.arg[i].description
          /\ ret.val[j].category = ret.val[i].category

-----------------------------------------------------------------------------
(* Properties of the commands *)

Commands == {"cmd_categorize", "cmd_drilldown"}

StepSet(r) == {r.steps[i] : i \in DOMAIN r.steps}

LastStep(r) == IF r.steps = <<>> THEN "" ELSE r.steps[Len(r.steps)]

\* every occurrence of step a in the run is before every occurrence of step b
Precedes(r, a, b) ==
    \A i, j \in DOMAIN r.steps : (r.steps[i] = a /\ r.steps[j] = b) => i < j

AggregateSteps ==
    {"get_total_stats", "get_category_count", "get_uncategorized_count",
     "group_by_category", "get_transactions_by_category", "get_summary_dataframe"}

\* an ignore pattern of the run is a case-insensitive substring of the text
IgnoredIn(r, text) ==
    \E k \in DOMAIN r.ignore_patterns : ContainsIgnoringCase(text, r.ignore_patterns[k])

\* the description to_transactions reads from a row of the loaded frame
DescriptionOf(row) == IF row.description.kind = "str" THEN row.description.v ELSE <<>>

\* the directory has a file that can be read, has the three columns, and has
\* a row with a description
TransactionsLoadable(directory) ==
    /\ directory.exists
    /\ \E i \in DOMAIN directory.csv_files :
          LET f == directory.csv_files[i] IN
          /\ f.readable
          /\ {"date", "amount", "description"}
                \subseteq {column_role(f.header[h]) : h \in DOMAIN f.header}
          /\ \E k \in DOMAIN f.rows : f.rows[k].description.kind = "str"

\* the category file cannot be read, or no column other than the ignore
\* column names a merchant
CategorySourceInvalid(file) ==
    \/ ~file.readable
    \/ \A i \in DOMAIN file.columns :
          \/ is_ignore_column(file.columns[i].name)
          \/ \A k \in DOMAIN file.columns[i].cells :
                LET m == file.columns[i].cells[k] IN
                \/ m.kind # "str"
                \/ \A c \in DOMAIN m.v : m.v[c] = " "
                \/ lower(strip(m.v)) = <<"n", "a", "n">>

\* the budget file has a row with a negative amount
HasNegativeBudget(file) ==
    \E k \in DOMAIN file.rows :
        file.rows[k].Budget.kind = "num" /\ file.rows[k].Budget.v < 0

\* --budget names a file that cannot be read, lacks a column, or has a
\* negative amount
BudgetSourceInvalid(budget) ==
    /\ budget # NoValue
    /\ \/ ~budget[1].readable
       \/ ~({"Category", "Budget"} \subseteq budget[1].header)
       \/ HasNegativeBudget(budget[1])

\* C18: in every run of the two commands the steps occur in the order filter,
\* categorize, persist, aggregate, and a transaction whose description
\* contains an ignore pattern is never passed to the categorizer, never
\* inserted and never counted: a run on loadable transactions and valid
\* sources performs the steps and counts exactly the transactions that
\* contain no ignore pattern.
C18_FilterBeforeCategorize ==
    ret.op \in Commands =>
        LET r == ret.val.run IN
        /\ Precedes(r, "filter_transactions", "categorize_batch")
        /\ Precedes(r, "categorize_batch", "insert_transactions")
        /\ \A a \in AggregateSteps : Precedes(r, "insert_transactions", a)
        /\ r.categorized # NoValue =>
              \A i \in DOMAIN r.categorized[1] :
                  ~IgnoredIn(r, r.categorized[1][i].description)
        /\ \A i \in DOMAIN r.rows : ~IgnoredIn(r, r.rows[i].description)
        /\ ( /\ TransactionsLoadable(ret.arg.input)
              /\ ~CategorySourceInvalid(ret.arg.categories)
              /\ ~BudgetSourceInvalid(ret.arg.budget) )
           => /\ ret.val.exit_code = 0
              /\ {"categorize_batch", "insert_transactions"} \subseteq StepSet(r)
              /\ StepSet(r) \cap AggregateSteps # {}
              /\ Len(r.rows)
                    = Cardinality({i \in DOMAIN r.df : ~IgnoredIn(r, DescriptionOf(r.df[i]))})
              /\ r.stats # NoValue => r.stats[1].total_count = Len(r.rows)

LoadSteps ==
    {"load_categories", "validate_categories", "load_ignore_patterns",
     "load_budgets", "validate_budgets"}

\* C19: a validation failure of the category source or of the budget source
\* aborts the run before any categorization: no run executes categorize_batch
\* or insert_transactions before a load step that then fails, and a run on
\* loadable transactions with an invalid category or budget source is ended
\* by that load step, with nothing categorized or inserted.
C19_LoadFailureBeforeCategorize ==
    ret.op \in Commands =>
        LET r == ret.val.run IN
        /\ (ret.val.exit_code = 1 /\ LastStep(r) \in LoadSteps)
              => StepSet(r) \cap {"categorize_batch", "insert_transactions"} = {}
        /\ ( /\ TransactionsLoadable(ret.arg.input)
              /\ \/ CategorySourceInvalid(ret.arg.categories)
                 \/ BudgetSourceInvalid(ret.arg.budget) )
           => /\ ret.val.exit_code = 1
              /\ LastStep(r) \in LoadSteps
              /\ StepSet(r) \cap {"categorize_batch", "insert_transactions"} = {}

\* C20: a negative amount in the budget source is fatal to the load: loading
\* the source fails or hands the negative entry on to a validation that
\* fails, validate_budgets fails on a dictionary with a negative amount, and
\* no run reports with such a source.
C20_NegativeBudgetFatal ==
    /\ (ret.op = "load_budgets" /\ ret.arg # NoValue /\ ret.arg[1].readable
          /\ {"Category", "Budget"} \subseteq ret.arg[1].header
          /\ HasNegativeBudget(ret.arg[1]))
          => \/ ret.exc # ""
             \/ \E k \in DOMAIN ret.val : ret.val[k] < 0
    /\ (ret.op = "validate_budgets" /\ \E k \in DOMAIN ret.arg : ret.arg[k] < 0)
          => (ret.exc # "" \/ ret.val = FALSE)
    /\ (ret.op \in Commands /\ ret.arg.budget # NoValue
          /\ HasNegativeBudget(ret.arg.budget[1]))
          => StepSet(ret.val.run) \cap AggregateSteps = {}

-----------------------------------------------------------------------------
(* Properties of the two aggregate views *)

\* the signed amounts of every stored category cancel: the grand total is 0
GrandTotalIsZero == \A c \in StoredCategories : SumOver(RowsOf(c)) = 0

\* C25: for a non-empty store whose grand total is 0, group_by_category
\* returns, without dividing by zero, summaries whose percentage is 0.
C25_ZeroGrandTotal ==
    (ret.op = "group_by_category" /\ rows # <<>> /\ GrandTotalIsZero) =>
        /\ ret.exc = ""
        /\ Len(ret.val) = Cardinality(StoredCategories)
        /\ \A k \in DOMAIN ret.val :
              ret.val[k].percentage.num = 0 /\ ret.val[k].percentage.den # 0

\* the sums of the count and of the raw_total fields of a list of summaries
RECURSIVE SumCounts(_)
SumCounts(summaries) ==
    IF summaries = <<>> THEN 0
    ELSE Head(summaries).count + SumCounts(Tail(summaries))

RECURSIVE SumRawTotals(_)
SumRawTotals(summaries) ==
    IF summaries = <<>> THEN 0
    ELSE Head(summaries).raw_total + SumRawTotals(Tail(summaries))

\* C29: for every store content the counts of the summaries of
\* group_by_category add up to the total_count of get_total_stats, the
\* number of stored transactions, their raw totals add up to its
\* total_amount, and every stored transaction falls into exactly one summary.
C29_Conservation ==
    ret.op = "group_by_category" =>
        LET stats == get_total_stats(rows) IN
        /\ ret.exc = ""
        /\ stats.exc = ""
        /\ SumCounts(ret.val) = stats.val.total_count
        /\ SumCounts(ret.val) = Len(rows)
        /\ SumRawTotals(ret.val) = stats.val.total_amount
        /\ \A i \in DOMAIN rows :
              Cardinality({k \in DOMAIN ret.val :
                              ret.val[k].category = rows[i].category}) = 1

-----------------------------------------------------------------------------
(* Properties of the diagnostic variant *)

\* no pattern of any category is in d, or d is empty
NothingMatches(d) ==
    \/ d = None
    \/ d = <<>>
    \/ \A i \in DOMAIN categories : ~SomePatternIn(categories[i], d)

\* C23: get_matching_category(d) returns a pair; its first component is what
\* categorize_transaction(d) returns; its second component is None exactly
\* when d is empty or no pattern of any category matches, and otherwise the
\* first pattern, as written, of the returned category that is a
\* case-insensitive substring of d.
C23_MatchDetail ==
    ret.op = "get_matching_category" =>
        /\ ret.exc = ""
        /\ Len(ret.val) = 2
        /\ LET c == categorize_transaction(categories, default_category, ret.arg) IN
              c.exc = "" /\ ret.val[1] = c.val
        /\ (ret.val[2] = None) <=> NothingMatches(ret.arg)
        /\ ~NothingMatches(ret.arg) =>
              \E i \in DOMAIN categories :
                 /\ \A h \in 1..(i - 1) : ~SomePatternIn(categories[h], ret.arg)
                 /\ ret.val[1] = categories[i].name
                 /\ \E k \in DOMAIN categories[i].merchants :
                       /\ ret.val[2] = categories[i].merchants[k]
                       /\ ContainsIgnoringCase(ret.arg, categories[i].merchants[k])
                       /\ \A j \in 1..(k - 1) :
                             ~ContainsIgnoringCase(ret.arg, categories[i].merchants[j])

\* A description was matched through a pattern written in upper case that is
\* not the first pattern of its category, in a category that is not the first.
C23_Witness ==
    /\ ret.op = "get_matching_category"
    /\ ret.exc = ""
    /\ ret.val[2] # None
    /\ ret.val[2] # lower(ret.val[2])
    /\ \E i \in DOMAIN categories :
          /\ i > 1
          /\ ret.val[1] = categories[i].name
          /\ \E k \in DOMAIN categories[i].merchants :
                k > 1 /\ ret.val[2] = categories[i].merchants[k]

-----------------------------------------------------------------------------
(* Properties of the store under inserts and updates *)

\* the four fields insert_transactions writes
SameRecord(a, b) ==
    /\ a.date = b.date
    /\ a.amount = b.amount
    /\ a.description = b.description
    /\ a.category = b.category

\* C21: each insert_transactions call returns the size of its batch and
\* appends the batch, in order, behind the records already stored, which it
\* leaves as they are; get_all_transactions returns every stored record once,
\* in that order, with its four fields as inserted and a unique id.
C21_InsertionOrder ==
    [][ /\ ret'.op = "insert_transactions" =>
            /\ ret'.exc = "" /\ ret'.val = Len(ret'.arg)
            /\ Len(rows') = Len(rows) + Len(ret'.arg)
            /\ SubSeq(rows', 1, Len(rows)) = rows
            /\ \A i \in DOMAIN ret'.arg :
                  /\ SameRecord(rows'[Len(rows) + i], ret'.arg[i])
                  /\ \A j \in DOMAIN rows : rows'[Len(rows) + i].id # rows[j].id
        /\ ret'.op = "get_all_transactions" =>
            /\ ret'.exc = ""
            /\ Len(ret'.val) = Len(rows')
            /\ \A i \in DOMAIN rows' :
                  /\ SameRecord(ret'.val[i], rows'[i])
                  /\ ret'.val[i].id = Some(rows'[i].id)
            /\ \A i, j \in DOMAIN ret'.val :
                  i # j => ret'.val[i].id # ret'.val[j].id
      ]_vars

-----------------------------------------------------------------------------
(* Properties of the loaders *)

\* a cell that is missing or holds only blanks
Blank(cell) == isna(cell) \/ strip(str_of(cell)) = <<>>

\* the cells of a column above its first blank cell
RECURSIVE DownToFirstBlank(_)
DownToFirstBlank(cells) ==
    IF cells = <<>> \/ Blank(Head(cells)) THEN <<>>
    ELSE <<strip(str_of(Head(cells)))>> \o DownToFirstBlank(Tail(cells))

\* the headers that read "ignore" in some letter case
IgnoreHeaders == {"ignore", "Ignore", "IGNORE"}

\* the columns of a table named ignore
IgnoreColumns(columns) ==
    {columns[i] : i \in {j \in DOMAIN columns : columns[j].name \in IgnoreHeaders}}

\* the categories of a table: its columns not named ignore, in order, that
\* have a pattern
RECURSIVE TableCategories(_)
TableCategories(columns) ==
    IF columns = <<>> THEN <<>>
    ELSE LET c == Head(columns) IN
         (IF c.name \notin IgnoreHeaders /\ DownToFirstBlank(c.cells) # <<>>
          THEN <<[name |-> c.name, merchants |-> DownToFirstBlank(c.cells)]>>
          ELSE <<>>) \o TableCategories(Tail(columns))

\* C22: the patterns of a column are its cells down to the first blank one;
\* a column named ignore, in any letter case, is never a category and its
\* cells are the ignore patterns; a column without patterns is no category.
C22_CategoryTable ==
    /\ ( /\ ret.op = "load_categories"
         /\ ret.arg.readable
         /\ TableCategories(ret.arg.columns) # <<>> ) =>
            ret.exc = "" /\ ret.val = TableCategories(ret.arg.columns)
    /\ ( /\ ret.op = "load_ignore_patterns"
         /\ ret.arg.readable ) =>
            /\ ret.exc = ""
            /\ \A c \in IgnoreColumns(ret.arg.columns) :
                  ret.val = DownToFirstBlank(c.cells)
            /\ IgnoreColumns(ret.arg.columns) = {} => ret.val = <<>>

\* the rows of a frame whose amount is a number, in order
NumericRows(df) == SelectSeq(df, LAMBDA row : is_number(row.amount))

\* the rows of a budget table that name a category
NamedRows(df) ==
    {i \in DOMAIN df : df[i].Category.kind = "str" /\ df[i].Category.v # ""}

\* C24: a row whose budget amount or whose transaction amount is no number
\* is skipped: it yields no budget entry and no transaction, and the rows
\* that remain are processed.
C24_UnparseableSkipped ==
    /\ ( /\ ret.op = "load_budgets"
         /\ ret.arg # NoValue
         /\ ret.exc = "" ) =>
            LET df == ret.arg[1].rows IN
            \A i \in NamedRows(df) :
               /\ (is_number(df[i].Budget) /\ df[i].Budget.v >= 0)
                     => df[i].Category.v \in DOMAIN ret.val
               /\ (\A j \in NamedRows(df) :
                       df[j].Category = df[i].Category => ~is_number(df[j].Budget))
                     => df[i].Category.v \notin DOMAIN ret.val
    /\ ret.op = "to_transactions" =>
            /\ ret.exc = ""
            /\ Len(ret.val) = Len(NumericRows(ret.arg))
            /\ \A i \in DOMAIN ret.val :
                  ret.val[i].amount = NumericRows(ret.arg)[i].amount.v

-----------------------------------------------------------------------------
(* Properties of the store under updates *)

\* C26: after any inserts and updates each query answers from the content
\* the store has when it is called: the categories written by
\* update_category are the ones the next query counts, sums and lists.
C26_FreshRead ==
    /\ ret.op = "group_by_category" =>
          /\ ret.exc = ""
          /\ {ret.val[k].category : k \in DOMAIN ret.val} = StoredCategories
          /\ \A k \in DOMAIN ret.val :
                /\ ret.val[k].count = Cardinality(RowsOf(ret.val[k].category))
                /\ ret.val[k].raw_total = SumOver(RowsOf(ret.val[k].category))
    /\ ret.op = "get_total_stats" =>
          /\ ret.exc = ""
          /\ ret.val.total_count = Len(rows)
          /\ ret.val.total_amount = SumOver(DOMAIN rows)
    /\ ret.op = "get_uncategorized_count" =>
          ret.exc = "" /\ ret.val = Cardinality(RowsOf("Uncategorized"))
    /\ ret.op = "get_transactions_by_category" =>
          /\ ret.exc = ""
          /\ Len(ret.val) = Cardinality(RowsOf(ret.arg))
          /\ \A k \in DOMAIN ret.val : \E i \in RowsOf(ret.arg) :
                /\ ret.val[k].date = rows[i].date
                /\ ret.val[k].amount = rows[i].amount
                /\ ret.val[k].description = rows[i].description
    /\ ret.op = "get_all_categories" =>
          /\ ret.exc = ""
          /\ {ret.val[k] : k \in DOMAIN ret.val} = StoredCategories

\* C27: the stored records, which are all that get_all_transactions and
\* get_by_category read, change through insert_transactions and
\* update_category only: an assignment to a field of the caller's objects and
\* a categorize_batch over them leave every stored record as it is;
\* update_category(id, c) keeps the number of records, writes c into the
\* category of the record with that id and changes nothing else, so nothing
\* at all when no record has the id.
C27_StoredImmutable ==
    [][ /\ ret'.op \notin {"insert_transactions", "update_category"} =>
            /\ rows' = rows
            /\ get_all_transactions(rows') = get_all_transactions(rows)
        /\ ret'.op = "update_category" =>
            /\ Len(rows') = Len(rows)
            /\ \A i \in DOMAIN rows :
                  IF rows[i].id = ret'.arg[1]
                  THEN /\ rows'[i].category = ret'.arg[2]
                       /\ rows'[i].id = rows[i].id
                       /\ SameRecord(rows'[i], [rows[i] EXCEPT !.category = ret'.arg[2]])
                  ELSE rows'[i] = rows[i]
            /\ (\A i \in DOMAIN rows : rows[i].id # ret'.arg[1]) => rows' = rows
      ]_vars

\* The caller has set an amount of its list to 0 after the insert, the stored
\* amount is still the inserted one, and update_category has then written the
\* category of one of two stored records while the other keeps another one.
C27_Witness ==
    /\ ret.op = "update_category"
    /\ Len(rows) >= 2
    /\ \E i \in DOMAIN rows :
          /\ rows[i].id = ret.arg[1]
          /\ rows[i].category = ret.arg[2]
    /\ \E j \in DOMAIN rows :
          rows[j].id # ret.arg[1] /\ rows[j].category # ret.arg[2]
    /\ transactions[1].amount = 0
    /\ rows[1].amount # 0

-----------------------------------------------------------------------------
(* Properties of the transaction load *)

\* the file cannot be read or lacks one of the three columns
FileFailsToLoad(f) ==
    \/ ~f.readable
    \/ ~({"date", "amount", "description"}
            \subseteq {column_role(f.header[h]) : h \in DOMAIN f.header})

\* C28: a load of the transaction files succeeds as a whole or aborts the
\* run: load_directory does not return the rows of some files when another
\* file of the directory failed to load, and a run over such a directory
\* ends at load_directory, with no frame handed on to the later steps.
C28_LoadAllOrAbort ==
    ( /\ ret.op \in Commands
      /\ ret.arg.input.exists
      /\ \E i \in DOMAIN ret.arg.input.csv_files :
            FileFailsToLoad(ret.arg.input.csv_files[i]) ) =>
        LET r == ret.val.run IN
        /\ ret.val.exit_code = 1
        /\ LastStep(r) = "load_directory"
        /\ r.df = <<>>

=============================================================================
